---- MODULE Spec2Model ----
(***************************************************************************)
(* SD card write/read/verify test of firmware/application/                 *)
(* ui_sd_card_debug.cpp: the worker thread of SDCardTestThread (static_fn, *)
(* run, write, read), the storage, timer and heap it consumes, and the     *)
(* owner of the object (SDCardDebugView::on_test, or any other owner that  *)
(* may destroy the object at any point).                                   *)
(***************************************************************************)
EXTENDS Integers, Sequences, FiniteSets, TLC

(* ------------------------------ bounds --------------------------------- *)

\* bytes_to_write / write_size: chunks per direction (1024 in the firmware).
NumChunks == 2

\* sizeof(*buffer) / sizeof(lfsr_word_t): words per chunk (4096 in the firmware).
WordsPerChunk == 2

\* Largest advance of the free-running counter between two consecutive readings.
MaxTick == 1

(* ----------------------------- constants ------------------------------- *)

\* sizeof(lfsr_word_t)
WordBytes == 4

\* Width of halrtcnt_t.
CounterBits == 32

\* A halrtcnt_t value is held as its two halves, [hi, lo], each below Half.
Half == 2 ^ (CounterBits \div 2)

\* The halrtcnt_t value of a number below 2^31.
Word32(n) == [hi |-> n \div Half, lo |-> n % Half]

\* halrtcnt_t addition, subtraction and comparison (unsigned, modulo 2^32).
Add32(a, b) ==
    LET lo == a.lo + b.lo
    IN  [hi |-> (a.hi + b.hi + (lo \div Half)) % Half, lo |-> lo % Half]

Sub32(a, b) ==
    LET lo == a.lo - b.lo + Half
    IN  [hi |-> (a.hi - b.hi - (1 - (lo \div Half)) + Half) % Half, lo |-> lo % Half]

Less32(a, b) == a.hi < b.hi \/ (a.hi = b.hi /\ a.lo < b.lo)

LessEq32(a, b) == ~Less32(b, a)

\* halrtcnt_t divided by a count below 2^15.
Div32(a, n) == [hi |-> a.hi \div n, lo |-> (((a.hi % n) * Half) + a.lo) \div n]

\* halrtcnt_t multiplied by a count below 2^15, modulo 2^32.
Mul32(a, n) ==
    LET lo == a.lo * n
    IN  [hi |-> ((a.hi * n) + (lo \div Half)) % Half, lo |-> lo % Half]

Zero32 == Word32(0)

Max32 == [hi |-> Half - 1, lo |-> Half - 1]

\* Width of the shift register the pattern oracle steps.
LfsrWidth == 4

LfsrMod == 2 ^ LfsrWidth

write_size == WordsPerChunk * WordBytes

bytes_to_write == NumChunks * write_size

bytes_to_read == bytes_to_write

\* Values the free-running counter may hold when a phase reads test_start:
\* far from and next to the wrap of halrtcnt_t.
CounterAtStart == {Zero32, Max32}

Ticks == 0 .. MaxTick

Result == {"FailCompare", "FailReadIncomplete", "FailWriteIncomplete", "FailAbort",
           "FailFileOpenRead", "FailFileOpenWrite", "FailHeap", "FailThread",
           "Incomplete", "OK"}

\* struct Stats, every field initialised to 0.
StatsInit ==
    [write_duration_min |-> Zero32, write_duration_max |-> Zero32,
     write_test_duration |-> Zero32,
     write_bytes |-> 0, write_count |-> 0,
     read_duration_min |-> Zero32, read_duration_max |-> Zero32,
     read_test_duration |-> Zero32,
     read_bytes |-> 0, read_count |-> 0]

(* --------------------------- pattern oracle ---------------------------- *)

\* One step of the linear-feedback shift register (taps on the two top bits).
lfsr_iterate(v) ==
    LET top  == (v \div (LfsrMod \div 2)) % 2
        next == (v \div (LfsrMod \div 4)) % 2
    IN  ((v * 2) % LfsrMod) + ((top + next) % 2)

RECURSIVE lfsr_fill(_, _)
\* The state after word_count steps and the words emitted, one per step.
lfsr_fill(v, word_count) ==
    IF word_count = 0
    THEN [v |-> v, words |-> <<>>]
    ELSE LET nv   == lfsr_iterate(v)
             rest == lfsr_fill(nv, word_count - 1)
         IN  [v |-> rest.v, words |-> <<nv>> \o rest.words]

RECURSIVE lfsr_compare(_, _)
\* Steps the register once per word of buffer and compares each word with the
\* register; the state after all the steps, and whether every word matched.
lfsr_compare(v, buffer) ==
    IF buffer = <<>>
    THEN [v |-> v, ok |-> TRUE]
    ELSE LET nv   == lfsr_iterate(v)
             rest == lfsr_compare(nv, Tail(buffer))
         IN  [v |-> rest.v, ok |-> (Head(buffer) = nv) /\ rest.ok]

(* ------------------------------- state --------------------------------- *)

VARIABLES
    thread,      \* SDCardTestThread::thread: "created" or "NULL"
    wpc,         \* position of the worker thread
    _result,     \* volatile Result _result
    _stats,      \* Stats _stats
    ret,         \* value returned by write(), read() or run(), until consumed
    v,           \* lfsr_word_t v of the executing phase
    test_start,  \* test_start of the executing phase
    counter,     \* value of the hardware counter at its last reading
    terminate,   \* termination request flag tested by chThdShouldTerminate()
    file,        \* _PPTEST_.DAT: [exists, open, data]
    owner,       \* "on_test" or "other"
    cpc,         \* position of the owner
    seen,        \* last value of result() the owner's poll loop observed
    hist         \* what happened in this run (observations for the properties)

vars == <<thread, wpc, _result, _stats, ret, v, test_start, counter, terminate,
          file, owner, cpc, seen, hist>>

HistInit ==
    [faults |-> {}, wExit |-> "none", rExit |-> "none",
     writeCalls |-> 0, writeOk |-> 0, readCalls |-> 0,
     readInvoked |-> FALSE, unlinked |-> FALSE,
     reqAt |-> "none", reqBytes |-> 0, assigns |-> 0,
     callsAfterReq |-> 0, wTimed |-> FALSE, rTimed |-> FALSE]

Init ==
    /\ thread \in {"created", "NULL"}
    /\ wpc = IF thread = "created" THEN "write_begin" ELSE "none"
    /\ _result = "Incomplete"
    /\ _stats = StatsInit
    /\ ret = "Incomplete"
    /\ v = 0
    /\ test_start = Zero32
    /\ counter = Zero32
    /\ terminate = FALSE
    /\ file = [exists |-> FALSE, open |-> FALSE, data |-> <<>>]
    /\ owner \in {"on_test", "other"}
    /\ cpc = IF owner = "on_test" THEN "poll" ELSE "hold"
    /\ seen = "Incomplete"
    /\ hist = HistInit

(* ------------------------------ helpers -------------------------------- *)

\* halGetCounterValue() after the counter advanced by d ticks.
halGetCounterValue(d) == Add32(counter, Word32(d))

Fault(h, f) == [h EXCEPT !.faults = @ \cup {f}]

(* ------------------------- SDCardTestThread::write --------------------- *)

\* lfsr_word_t v = 1;  (write)
WriteSeed == 1

\* Faulty variant of WriteLoopCond: the loop stops one chunk short of the target.
WriteLoopCond_StopsEarly(term, ready, bytes) ==
    ~term /\ ready /\ bytes + write_size < bytes_to_write

\* while( !chThdShouldTerminate() && file.is_ready() && (_stats.write_bytes < bytes_to_write) )
WriteLoopCond(term, ready, bytes) == ~term /\ ready /\ bytes < bytes_to_write

\* Why the loop condition was false, by the && evaluation order.
LoopExit(term, ready) ==
    IF term THEN "cancel" ELSE IF ~ready THEN "notready" ELSE "target"

\* if( (min == 0) || (duration < min) ) min = duration;
DurationMin(min, duration) ==
    IF min = Zero32 \/ Less32(duration, min) THEN duration ELSE min

\* if( duration > max ) max = duration;
DurationMax(max, duration) == IF Less32(max, duration) THEN duration ELSE max

\* Faulty variant of BytesAfterChunk: adds the word count, not the byte size.
BytesAfterChunk_Words(bytes) == bytes + WordsPerChunk

\* _stats.write_bytes += buffer->size();
BytesAfterChunk(bytes) == bytes + write_size

\* Lines 131-143: buffer allocation, open_for_writing, seed, test_start.
WriteBegin ==
    /\ wpc = "write_begin"
    /\ \E heap_ok \in BOOLEAN, open_ok \in BOOLEAN, now \in CounterAtStart :
        IF ~heap_ok
        THEN /\ ret' = "FailHeap"
             /\ wpc' = "after_write"
             /\ hist' = Fault(hist, "heap_write")
             /\ UNCHANGED <<v, test_start, counter, file>>
        ELSE IF ~open_ok
        THEN /\ ret' = "FailFileOpenWrite"
             /\ wpc' = "after_write"
             /\ hist' = Fault(hist, "open_write")
             /\ UNCHANGED <<v, test_start, counter, file>>
        ELSE /\ file' = [exists |-> TRUE, open |-> TRUE, data |-> <<>>]
             /\ v' = WriteSeed
             /\ counter' = now
             /\ test_start' = counter'
             /\ wpc' = "write_loop"
             /\ UNCHANGED <<ret, hist>>
    /\ UNCHANGED <<thread, _result, _stats, terminate, owner, cpc, seen>>

\* Line 144: the loop condition of write().
WriteLoopCheck ==
    /\ wpc = "write_loop"
    /\ \E ready \in BOOLEAN :
        /\ (terminate => ready)      \* is_ready() is not called after a request
        /\ IF WriteLoopCond(terminate, ready, _stats.write_bytes)
           THEN /\ wpc' = "write_body"
                /\ hist' = hist
           ELSE /\ wpc' = "write_end"
                /\ hist' = [IF ready THEN hist ELSE Fault(hist, "ready_write")
                              EXCEPT !.wExit = LoopExit(terminate, ready)]
    /\ UNCHANGED <<thread, _result, _stats, ret, v, test_start, counter, terminate,
                   file, owner, cpc, seen>>

\* Lines 145-164: one chunk: lfsr_fill, the timed file.write, the statistics.
WriteChunk ==
    /\ wpc = "write_body"
    /\ \E d1 \in Ticks, d2 \in Ticks, write_ok \in BOOLEAN :
        LET filled      == lfsr_fill(v, WordsPerChunk)
            write_start == halGetCounterValue(d1)
            write_end   == Add32(write_start, Word32(d2))
            write_duration == Sub32(write_end, write_start)
        IN  /\ v' = filled.v
            /\ IF ~write_ok
               THEN /\ counter' = write_start
                    /\ wpc' = "write_end"
                    /\ hist' = [Fault(hist, "write") EXCEPT !.wExit = "fail",
                                    !.writeCalls = @ + 1,
                                    !.callsAfterReq = @ + (IF terminate THEN 1 ELSE 0)]
                    /\ UNCHANGED <<_stats, file>>
               ELSE /\ counter' = write_end
                    /\ file' = [file EXCEPT !.data = Append(@, filled.words)]
                    /\ _stats' = [_stats EXCEPT
                          !.write_bytes = BytesAfterChunk(@),
                          !.write_count = @ + 1,
                          !.write_duration_min = DurationMin(@, write_duration),
                          !.write_duration_max = DurationMax(@, write_duration)]
                    /\ wpc' = "write_loop"
                    /\ hist' = [hist EXCEPT !.writeCalls = @ + 1, !.writeOk = @ + 1,
                                    !.callsAfterReq = @ + (IF terminate THEN 1 ELSE 0)]
    /\ UNCHANGED <<thread, _result, ret, test_start, terminate, owner, cpc, seen>>

\* Lines 167-172: close, test_end, write_test_duration, return OK.
WriteEnd ==
    /\ wpc = "write_end"
    /\ \E d \in Ticks :
        /\ counter' = halGetCounterValue(d)
        /\ _stats' = [_stats EXCEPT !.write_test_duration = Sub32(counter', test_start)]
    /\ file' = [file EXCEPT !.open = FALSE]
    /\ ret' = "OK"
    /\ v' = 0
    /\ test_start' = Zero32
    /\ wpc' = "after_write"
    /\ hist' = [hist EXCEPT !.wTimed = TRUE]
    /\ UNCHANGED <<thread, _result, terminate, owner, cpc, seen>>

(* ------------------------- SDCardTestThread::read ---------------------- *)

\* Faulty variant of ReadSeed: the verifier starts from another seed.
ReadSeed_Other == WriteSeed + 1

\* lfsr_word_t v = 1;  (read)
ReadSeed == 1

\* Faulty variant of ReadLoopCond: the termination request is not tested.
ReadLoopCond_NoCancel(term, ready, bytes) == ready /\ bytes < bytes_to_read

\* while( !chThdShouldTerminate() && file.is_ready() && (_stats.read_bytes < bytes_to_read) )
ReadLoopCond(term, ready, bytes) == ~term /\ ready /\ bytes < bytes_to_read

\* Faulty variant of ReadOpenFailed: the write-direction code is returned.
ReadOpenFailed_AsWrite == "FailFileOpenWrite"

\* return Result::FailFileOpenRead;
ReadOpenFailed == "FailFileOpenRead"

\* What storage may hand back for a stored chunk: the chunk itself, or the
\* chunk with one word altered.
Corrupted(chunk) ==
    { [chunk EXCEPT ![i] = (@ + 1) % LfsrMod] : i \in 1 .. Len(chunk) }

\* Lines 176-188: buffer allocation, open_for_reading, seed, test_start.
ReadBegin ==
    /\ wpc = "read_begin"
    /\ \E heap_ok \in BOOLEAN, open_ok \in BOOLEAN, now \in CounterAtStart :
        IF ~heap_ok
        THEN /\ ret' = "FailHeap"
             /\ wpc' = "after_read"
             /\ hist' = [Fault(hist, "heap_read") EXCEPT !.readInvoked = TRUE]
             /\ UNCHANGED <<v, test_start, counter, file>>
        ELSE IF ~open_ok
        THEN /\ ret' = ReadOpenFailed
             /\ wpc' = "after_read"
             /\ hist' = [Fault(hist, "open_read") EXCEPT !.readInvoked = TRUE]
             /\ UNCHANGED <<v, test_start, counter, file>>
        ELSE /\ file' = [file EXCEPT !.open = TRUE]
             /\ v' = ReadSeed
             /\ counter' = now
             /\ test_start' = counter'
             /\ wpc' = "read_loop"
             /\ hist' = [hist EXCEPT !.readInvoked = TRUE]
             /\ ret' = ret
    /\ UNCHANGED <<thread, _result, _stats, terminate, owner, cpc, seen>>

\* Line 189: the loop condition of read().
ReadLoopCheck ==
    /\ wpc = "read_loop"
    /\ \E ready \in BOOLEAN :
        /\ (terminate => ready)      \* is_ready() is not called after a request
        /\ IF ReadLoopCond(terminate, ready, _stats.read_bytes)
           THEN /\ wpc' = "read_body"
                /\ hist' = hist
           ELSE /\ wpc' = "read_end"
                /\ hist' = [IF ready THEN hist ELSE Fault(hist, "ready_read")
                              EXCEPT !.rExit = LoopExit(terminate, ready)]
    /\ UNCHANGED <<thread, _result, _stats, ret, v, test_start, counter, terminate,
                   file, owner, cpc, seen>>

\* Faulty variant of CompareOk: the outcome of lfsr_compare is ignored.
CompareOk_Ignored(cmp) == TRUE

\* if( !lfsr_compare(...) ) return Result::FailCompare;
CompareOk(cmp) == cmp.ok

\* Lines 190-211: one chunk: the timed file.read, the statistics, lfsr_compare.
\* On a mismatch read() returns at once: the File object goes out of scope,
\* test_end is not read and read_test_duration is not written.
ReadChunk ==
    /\ wpc = "read_body"
    /\ \E d1 \in Ticks, d2 \in Ticks, read_ok \in BOOLEAN :
        LET read_start == halGetCounterValue(d1)
            read_end   == Add32(read_start, Word32(d2))
            read_duration == Sub32(read_end, read_start)
            stored     == file.data[_stats.read_count + 1]
        IN  IF ~read_ok
            THEN /\ counter' = read_start
                 /\ wpc' = "read_end"
                 /\ hist' = [Fault(hist, "read") EXCEPT !.rExit = "fail",
                                 !.readCalls = @ + 1,
                                 !.callsAfterReq = @ + (IF terminate THEN 1 ELSE 0)]
                 /\ UNCHANGED <<_stats, v, ret, test_start, file>>
            ELSE \E buffer \in {stored} \cup Corrupted(stored) :
                 LET cmp == lfsr_compare(v, buffer)
                 IN  /\ counter' = read_end
                     /\ _stats' = [_stats EXCEPT
                           !.read_bytes = BytesAfterChunk(@),
                           !.read_count = @ + 1,
                           !.read_duration_min = DurationMin(@, read_duration),
                           !.read_duration_max = DurationMax(@, read_duration)]
                     /\ IF CompareOk(cmp)
                        THEN /\ v' = cmp.v
                             /\ wpc' = "read_loop"
                             /\ UNCHANGED <<ret, test_start, file>>
                        ELSE /\ v' = 0
                             /\ test_start' = Zero32
                             /\ ret' = "FailCompare"
                             /\ file' = [file EXCEPT !.open = FALSE]
                             /\ wpc' = "after_read"
                     /\ hist' = [(IF buffer = stored THEN hist ELSE Fault(hist, "corrupt"))
                                   EXCEPT !.readCalls = @ + 1,
                                          !.callsAfterReq = @ + (IF terminate THEN 1 ELSE 0),
                                          !.rExit = IF cmp.ok THEN @ ELSE "mismatch"]
    /\ UNCHANGED <<thread, _result, terminate, owner, cpc, seen>>

\* Lines 214-219: close, test_end, read_test_duration, return OK.
ReadEnd ==
    /\ wpc = "read_end"
    /\ \E d \in Ticks :
        /\ counter' = halGetCounterValue(d)
        /\ _stats' = [_stats EXCEPT !.read_test_duration = Sub32(counter', test_start)]
    /\ file' = [file EXCEPT !.open = FALSE]
    /\ ret' = "OK"
    /\ v' = 0
    /\ test_start' = Zero32
    /\ wpc' = "after_read"
    /\ hist' = [hist EXCEPT !.rTimed = TRUE]
    /\ UNCHANGED <<thread, _result, terminate, owner, cpc, seen>>

(* ------------------------- SDCardTestThread::run ----------------------- *)

\* Faulty variant of AfterWrite: the shortfall test of line 104 is missing.
AfterWrite_NoShortfall(write_result, write_bytes, term) ==
    IF write_result # "OK" THEN write_result
    ELSE IF term THEN "FailAbort"
    ELSE "read"

\* Faulty variant of AfterWrite: the termination test of line 108 is missing.
AfterWrite_NoAbortTest(write_result, write_bytes, term) ==
    IF write_result # "OK" THEN write_result
    ELSE IF write_bytes < bytes_to_write THEN "FailWriteIncomplete"
    ELSE "read"

\* Lines 99-110: what run() does with the outcome of write(); "read" stands
\* for going on to the read phase.
AfterWrite(write_result, write_bytes, term) ==
    IF write_result # "OK" THEN write_result
    ELSE IF write_bytes < bytes_to_write THEN "FailWriteIncomplete"
    ELSE IF term THEN "FailAbort"
    ELSE "read"

\* Faulty variant of AfterRead: the shortfall test of line 119 is missing.
AfterRead_NoShortfall(read_bytes, term) == IF term THEN "FailAbort" ELSE "OK"

\* Lines 119-127: the result of run() once read() has returned OK.
AfterRead(read_bytes, term) ==
    IF read_bytes < bytes_to_read THEN "FailReadIncomplete"
    ELSE IF term THEN "FailAbort"
    ELSE "OK"

\* Lines 99-110.
RunAfterWrite ==
    /\ wpc = "after_write"
    /\ LET next == AfterWrite(ret, _stats.write_bytes, terminate)
       IN  IF next = "read"
           THEN /\ wpc' = "read_begin"
                /\ ret' = "Incomplete"
           ELSE /\ wpc' = "assign"
                /\ ret' = next
    /\ UNCHANGED <<thread, _result, _stats, v, test_start, counter, terminate, file,
                   owner, cpc, seen, hist>>

\* Faulty variant of UnlinkAfterRead: the file is deleted whatever read() returned.
UnlinkAfterRead_Always(read_result) == TRUE

\* Lines 113-117: f_unlink is reached only when read() returned OK.
UnlinkAfterRead(read_result) == read_result = "OK"

\* Lines 113-127.
RunAfterRead ==
    /\ wpc = "after_read"
    /\ IF UnlinkAfterRead(ret)
       THEN /\ file' = [file EXCEPT !.exists = FALSE, !.data = <<>>]
            /\ hist' = [hist EXCEPT !.unlinked = TRUE]
       ELSE UNCHANGED <<file, hist>>
    /\ ret' = IF ret # "OK" THEN ret ELSE AfterRead(_stats.read_bytes, terminate)
    /\ wpc' = "assign"
    /\ UNCHANGED <<thread, _result, _stats, v, test_start, counter, terminate,
                   owner, cpc, seen>>

(* ---------------------- SDCardTestThread::static_fn -------------------- *)

\* Faulty variant of StaticFnResult: an aborted run leaves _result unset.
StaticFnResult_DropsAbort(run_result) ==
    IF run_result = "FailAbort" THEN "Incomplete" ELSE run_result

\* obj->_result = obj->run();
StaticFnResult(run_result) == run_result

\* Line 92.
StaticFnAssign ==
    /\ wpc = "assign"
    /\ _result' = StaticFnResult(ret)
    /\ hist' = [hist EXCEPT !.assigns = @ + 1]
    /\ wpc' = "return"
    /\ UNCHANGED <<thread, _stats, ret, v, test_start, counter, terminate, file,
                   owner, cpc, seen>>

\* Line 93: return 0; the thread exits.
StaticFnReturn ==
    /\ wpc = "return"
    /\ wpc' = "exited"
    /\ UNCHANGED <<thread, _result, _stats, ret, v, test_start, counter, terminate,
                   file, owner, cpc, seen, hist>>

(* ------------------------------ the owner ------------------------------ *)

\* Faulty variant of chThdWaitReturns: the destructor does not wait.
chThdWaitReturns_NoWait(w) == TRUE

\* chThdWait(thread) returns once the thread has exited.
chThdWaitReturns(w) == w = "exited"

\* Faulty variant of PollAgain: on_test does not wait for the result.
PollAgain_Never(r) == FALSE

\* while( thread.result() == SDCardTestThread::Result::Incomplete )
PollAgain(r) == r = "Incomplete"

\* Line 362: one evaluation of the poll loop's condition (the loop sleeps
\* 100 ms and evaluates it again while the result is Incomplete).
OnTestPoll ==
    /\ owner = "on_test"
    /\ cpc = "poll"
    /\ seen' = _result
    /\ cpc' = IF PollAgain(_result) THEN "poll" ELSE "report"
    /\ UNCHANGED <<thread, wpc, _result, _stats, ret, v, test_start, counter,
                   terminate, file, owner, hist>>

\* Lines 379-402: the values on_test divides by when the result is OK, in the
\* 32-bit types they are computed in.
ReportDivisors(stats) ==
    {Word32(stats.write_count),
     Mul32(stats.write_duration_min, stats.write_count),
     stats.write_test_duration,
     Word32(stats.read_count),
     Mul32(stats.read_duration_min, stats.read_count),
     stats.read_test_duration}

\* Lines 377-406: the statistics or the failure code are shown; the local
\* SDCardTestThread then goes out of scope. A division by zero is undefined:
\* the report may go on or fault.
OnTestReport ==
    /\ owner = "on_test"
    /\ cpc = "report"
    /\ seen' = _result
    /\ IF _result = "OK" /\ Zero32 \in ReportDivisors(_stats)
       THEN cpc' \in {"dtor", "fault"}
       ELSE cpc' = "dtor"
    /\ UNCHANGED <<thread, wpc, _result, _stats, ret, v, test_start, counter,
                   terminate, file, owner, hist>>

\* The part of run() the worker is in.
Phase(w) ==
    IF w \in {"write_begin", "write_loop", "write_body", "write_end"} THEN "write"
    ELSE IF w \in {"read_begin", "read_loop", "read_body", "read_end"} THEN "read"
    ELSE IF w \in {"after_write", "after_read", "assign"} THEN "run"
    ELSE "out"

\* Line 77: chThdTerminate(thread), the first statement of the destructor.
\* on_test destroys its local object after reporting; an owner other than
\* on_test destroys the object at a point of its choosing. With
\* thread == NULL the call dereferences a null pointer: it may return or fault.
DtorTerminate ==
    /\ cpc = "dtor" \/ (owner = "other" /\ cpc = "hold")
    /\ IF thread = "created"
       THEN /\ terminate' = TRUE
            /\ cpc' = "wait"
            /\ hist' = [hist EXCEPT
                  !.reqAt = Phase(wpc),
                  !.reqBytes = IF Phase(wpc) = "write" THEN _stats.write_bytes ELSE 0]
       ELSE /\ cpc' \in {"wait", "fault"}
            /\ UNCHANGED <<terminate, hist>>
    /\ UNCHANGED <<thread, wpc, _result, _stats, ret, v, test_start, counter, file,
                   owner, seen>>

\* Line 78: chThdWait(thread) blocks until the worker has exited. With
\* thread == NULL it may return, fault, or never return.
DtorWait ==
    /\ cpc = "wait"
    /\ IF thread = "created"
       THEN /\ chThdWaitReturns(wpc)
            /\ cpc' = "gone"
       ELSE cpc' \in {"gone", "fault"}
    /\ UNCHANGED <<thread, wpc, _result, _stats, ret, v, test_start, counter,
                   terminate, file, owner, seen, hist>>

\* Line 379: stats.write_test_duration / stats.write_count
write_duration_avg(stats) == Div32(stats.write_test_duration, stats.write_count)

\* Line 392: stats.read_test_duration / stats.read_count
read_duration_avg(stats) == Div32(stats.read_test_duration, stats.read_count)

(* --------------------------- specification ----------------------------- *)

Next ==
    \/ WriteBegin \/ WriteLoopCheck \/ WriteChunk \/ WriteEnd \/ RunAfterWrite
    \/ ReadBegin \/ ReadLoopCheck \/ ReadChunk \/ ReadEnd \/ RunAfterRead
    \/ StaticFnAssign \/ StaticFnReturn
    \/ OnTestPoll \/ OnTestReport \/ DtorTerminate \/ DtorWait

Spec == Init /\ [][Next]_vars

(* ----------------------------- observations ---------------------------- *)

\* The worker has assigned _result (static_fn is past line 92).
Done == wpc \in {"return", "exited"}

\* run() has returned (its value is in ret or already in _result).
RunReturned == wpc \in {"assign", "return", "exited"}

\* Faults of the storage calls and of the data they return.
StorageFaults ==
    {"open_write", "ready_write", "write", "open_read", "ready_read", "read", "corrupt"}

NoStorageFault == hist.faults \cap StorageFaults = {}

NoFault == hist.faults = {}

\* No termination request reached the worker before it assigned _result.
NoCancelInRun == hist.reqAt \in {"none", "out"}

WriteFinished == Phase(wpc) \in {"read", "run", "out"} /\ thread = "created"

ReadFinished == wpc \in {"after_read", "assign", "return", "exited"} /\ hist.readInvoked

\* Some step of the worker can be taken.
WorkerStep ==
    \/ WriteBegin \/ WriteLoopCheck \/ WriteChunk \/ WriteEnd \/ RunAfterWrite
    \/ ReadBegin \/ ReadLoopCheck \/ ReadChunk \/ ReadEnd \/ RunAfterRead
    \/ StaticFnAssign \/ StaticFnReturn

(* ------------------------------- claims -------------------------------- *)

\* C1 as stated: a run in which no storage call (open, write, read, is_ready)
\* fails, every chunk read back equals what was written and no cancellation
\* is requested ends with Result::OK, write_count and read_count both equal
\* to bytes_to_write / write_size, and f_unlink called.
C1_EndToEnd_Original ==
    (Done /\ NoStorageFault /\ NoCancelInRun) =>
        /\ _result = "OK"
        /\ _stats.write_count = NumChunks
        /\ _stats.read_count = NumChunks
        /\ hist.unlinked

\* C1 amended: a run in which, besides, both buffer allocations succeed
\* never blocks before the worker exits, ends with Result::OK and both counts
\* equal to bytes_to_write / write_size; whenever the result is OK the test
\* file has been deleted by f_unlink.
C1_EndToEnd ==
    /\ (Done /\ NoFault /\ NoCancelInRun) =>
          /\ _result = "OK"
          /\ _stats.write_count = NumChunks
          /\ _stats.read_count = NumChunks
          /\ _stats.write_count * write_size = bytes_to_write
    /\ (_result = "OK" \/ (RunReturned /\ ret = "OK")) =>
          (hist.unlinked /\ ~file.exists)
    /\ (thread = "created" /\ wpc # "exited") => ENABLED WorkerStep

C1_Witness ==
    /\ wpc = "exited" /\ NoFault /\ NoCancelInRun
    /\ _result = "OK" /\ _stats.read_count = NumChunks /\ hist.unlinked

\* C2 as stated: a termination request made after the first chunk of the
\* write phase completed and before the write phase transferred all of
\* bytes_to_write ends the run with Result::FailAbort, write_count counting
\* exactly the completed write calls, and read() never invoked. (Stated here
\* for the runs without any fault.)
C2_CancelInWrite ==
    (Done /\ NoFault /\ hist.reqAt = "write"
          /\ hist.reqBytes > 0 /\ hist.reqBytes < bytes_to_write) =>
        /\ _result = "FailAbort"
        /\ _stats.write_count = hist.writeOk
        /\ _stats.write_bytes = hist.writeOk * write_size
        /\ ~hist.readInvoked

\* C3: when a file.write call returns false after k < bytes_to_write /
\* write_size chunks were written, the run ends with
\* Result::FailWriteIncomplete, write_count = k, and neither read() nor
\* file.read is ever invoked.
C3_WriteShortfall ==
    ("write" \in hist.faults) =>
        /\ hist.writeCalls = hist.writeOk + 1
        /\ _stats.write_count = hist.writeOk
        /\ _stats.write_count < NumChunks
        /\ ~hist.readInvoked /\ hist.readCalls = 0
        /\ RunReturned => ret = "FailWriteIncomplete"
        /\ Done => _result = "FailWriteIncomplete"

C3_Witness ==
    /\ wpc = "exited" /\ "write" \in hist.faults
    /\ _stats.write_count = NumChunks - 1 /\ _stats.write_count > 0

\* C4: when the write phase completed in full and open_for_reading fails,
\* the run ends with Result::FailFileOpenRead and every read-direction field
\* of Stats still has its initial value 0.
C4_ReadOpenFailure ==
    ("open_read" \in hist.faults) =>
        /\ _stats.write_bytes = bytes_to_write
        /\ _stats.read_duration_min = Zero32
        /\ _stats.read_duration_max = Zero32
        /\ _stats.read_test_duration = Zero32
        /\ _stats.read_bytes = 0
        /\ _stats.read_count = 0
        /\ RunReturned => ret = "FailFileOpenRead"
        /\ Done => _result = "FailFileOpenRead"

C4_Witness == wpc = "exited" /\ "open_read" \in hist.faults /\ cpc = "gone"

\* C5: _result is Incomplete until the worker has returned from run(), is
\* then assigned once, to a value other than Incomplete, and never changes
\* afterwards.
C5_SingleResult ==
    /\ [](~Done => (_result = "Incomplete" /\ hist.assigns = 0))
    /\ [](Done => (_result # "Incomplete" /\ _result = ret /\ hist.assigns = 1))
    /\ [][_result # "Incomplete" => _result' = _result]_vars

C5_Witness == wpc = "exited" /\ _result = "FailAbort" /\ cpc = "gone"

\* C6: the destructor first requests termination and then blocks until the
\* worker thread has exited: it never finishes while the worker is still
\* executing.
C6_BoundedLifetime ==
    /\ (thread = "created" /\ cpc \in {"wait", "gone"}) => terminate
    /\ (thread = "created" /\ cpc = "gone") => wpc = "exited"

C6_Witness ==
    thread = "created" /\ cpc = "gone" /\ hist.reqAt = "read" /\ wpc = "exited"

\* C7: once a phase has finished, by any exit, its byte total equals its
\* chunk count times the chunk size.
C7_BytesCount ==
    /\ WriteFinished => _stats.write_bytes = _stats.write_count * write_size
    /\ ReadFinished => _stats.read_bytes = _stats.read_count * write_size

C7_Witness ==
    /\ wpc = "exited" /\ hist.wExit = "target"
    /\ hist.rExit = "mismatch" /\ _stats.read_count = NumChunks

\* C8 as stated: once a phase has completed with count > 0,
\* duration_min <= test_duration / count <= duration_max, for every sequence
\* of counter readings. (Stated here for the phases that reached their byte
\* target in a run without any fault.)
C8_DurationOrdering ==
    /\ (WriteFinished /\ NoFault /\ hist.wExit = "target" /\ _stats.write_count > 0) =>
          /\ LessEq32(_stats.write_duration_min, write_duration_avg(_stats))
          /\ LessEq32(write_duration_avg(_stats), _stats.write_duration_max)
    /\ (ReadFinished /\ NoFault /\ hist.rExit = "target" /\ _stats.read_count > 0) =>
          /\ LessEq32(_stats.read_duration_min, read_duration_avg(_stats))
          /\ LessEq32(read_duration_avg(_stats), _stats.read_duration_max)

\* C9 as stated: a run whose write or read loop stopped because the worker
\* observed a termination request, with no failed storage call and no
\* mismatch, ends with Result::FailAbort and not with FailWriteIncomplete or
\* FailReadIncomplete.
C9_CancelIsDistinct ==
    (Done /\ NoFault /\ (hist.wExit = "cancel" \/ hist.rExit = "cancel")) =>
        _result = "FailAbort"

\* C10: writer and verifier start from the same seed and thread their state
\* over all chunks, so when storage returns for every chunk the words written
\* there, lfsr_compare succeeds on every chunk and the run never yields
\* Result::FailCompare.
C10_OracleRoundTrip ==
    ("corrupt" \notin hist.faults) =>
        /\ hist.rExit # "mismatch"
        /\ ret # "FailCompare"
        /\ _result # "FailCompare"
        /\ (wpc = "read_loop" =>
               v = lfsr_fill(WriteSeed, _stats.read_count * WordsPerChunk).v)

C10_Witness ==
    /\ wpc = "exited" /\ _result = "OK" /\ "corrupt" \notin hist.faults
    /\ hist.readCalls = NumChunks /\ NumChunks > 1 /\ cpc = "gone"

\* C11 as stated: every invocation of on_test eventually observes a result
\* other than Incomplete and leaves its poll loop, also when creating the
\* worker thread fails. While on_test polls and the result is Incomplete, the
\* worker must be able to take a step towards assigning it.
C11_PollTerminates ==
    (owner = "on_test" /\ cpc = "poll" /\ _result = "Incomplete") =>
        ENABLED WorkerStep

\* C12: the read phase starts only after write() returned OK with all of
\* bytes_to_write written and its file closed, and with no termination
\* request seen at the boundary; no read call precedes a write call and no
\* write call follows the start of the read phase.
C12_PhaseOrdering ==
    /\ [][(wpc # "read_begin" /\ wpc' = "read_begin") =>
             /\ wpc = "after_write" /\ ret = "OK" /\ ~terminate
             /\ _stats.write_bytes = bytes_to_write
             /\ hist.wTimed /\ ~file.open]_vars
    /\ [][(~hist.readInvoked /\ hist.readInvoked') =>
             (wpc = "read_begin" /\ ~file.open /\ hist.readCalls = 0)]_vars
    /\ [][hist.readInvoked =>
             (hist.writeCalls' = hist.writeCalls /\ Phase(wpc') # "write")]_vars
    /\ [](hist.readCalls > 0 =>
             (hist.readInvoked /\ hist.writeOk = NumChunks
                /\ hist.writeCalls = NumChunks))

C12_Witness ==
    /\ wpc = "exited" /\ hist.readInvoked
    /\ hist.readCalls = NumChunks /\ hist.writeCalls = NumChunks

\* C13: when lfsr_compare reports a mismatch on the k-th chunk read, no
\* further file.read call is issued, the run ends with Result::FailCompare,
\* and read_count = k.
C13_MismatchTerminal ==
    (hist.rExit = "mismatch") =>
        /\ wpc \in {"after_read", "assign", "return", "exited"}
        /\ _stats.read_count = hist.readCalls
        /\ ret = "FailCompare"
        /\ Done => _result = "FailCompare"

C13_Witness ==
    /\ wpc = "exited" /\ hist.rExit = "mismatch"
    /\ hist.readCalls = 1 /\ NumChunks > 1

\* C14: no chunk transfer is retried: after a file.write or file.read call
\* returned false no further transfer call is issued, the calls per direction
\* never exceed bytes_to_write / write_size, and a failed transfer always
\* leads to a terminal result other than OK.
C14_NoRetry ==
    /\ hist.writeCalls <= NumChunks /\ hist.readCalls <= NumChunks
    /\ hist.writeCalls <= hist.writeOk + 1
    /\ hist.readCalls <= _stats.read_count + 1
    /\ ("write" \in hist.faults) =>
          /\ wpc \notin {"write_loop", "write_body"}
          /\ hist.writeCalls = hist.writeOk + 1 /\ hist.readCalls = 0
    /\ ("read" \in hist.faults) =>
          /\ wpc \notin {"read_loop", "read_body"}
          /\ hist.readCalls = _stats.read_count + 1
    /\ (Done /\ hist.faults \cap {"write", "read"} # {}) =>
          _result \notin {"OK", "Incomplete"}

C14_Witness ==
    /\ wpc = "exited" /\ "read" \in hist.faults
    /\ _stats.read_count = NumChunks - 1 /\ _result = "FailReadIncomplete"

\* C15: the worker tests the termination request before every chunk of both
\* phases and after each phase: once a request has been made, at most one
\* further chunk transfer is started (the one whose loop test had already
\* passed), no new phase is entered, and a request made during a phase never
\* ends in Result::OK.
C15_CooperativeCancel ==
    /\ hist.callsAfterReq <= 1
    /\ (terminate /\ wpc \in {"write_body", "read_body"}) => hist.callsAfterReq = 0
    /\ (hist.reqAt = "write") => ~hist.readInvoked
    /\ (Done /\ hist.reqAt \in {"write", "read"}) => _result \notin {"OK", "Incomplete"}

C15_Witness ==
    /\ wpc = "exited" /\ hist.reqAt = "read" /\ hist.callsAfterReq = 1
    /\ _result = "FailReadIncomplete"

\* C16 as stated: every exit from write() and from read(), once the file was
\* opened, closes the file and records the phase's total duration, whether
\* the loop ended by reaching the byte count, by an I/O failure, by a
\* termination request or by a verification mismatch.
C16_PhaseExit ==
    /\ (WriteFinished /\ hist.faults \cap {"heap_write", "open_write"} = {}) =>
          (hist.wTimed /\ (wpc = "after_write" => ~file.open))
    /\ (ReadFinished /\ hist.faults \cap {"heap_read", "open_read"} = {}) =>
          (hist.rTimed /\ ~file.open)

\* C17 as stated: duration_min is the smallest and duration_max the largest
\* chunk duration recorded so far, for every sequence of chunk durations,
\* zero included; so once a chunk has been recorded, a further chunk never
\* raises the minimum or lowers the maximum.
C17_MinMaxPolicy ==
    /\ [][(_stats.write_count > 0 /\ _stats.write_count' = _stats.write_count + 1) =>
             /\ LessEq32(_stats.write_duration_min', _stats.write_duration_min)
             /\ LessEq32(_stats.write_duration_max, _stats.write_duration_max')]_vars
    /\ [][(_stats.read_count > 0 /\ _stats.read_count' = _stats.read_count + 1) =>
             /\ LessEq32(_stats.read_duration_min', _stats.read_duration_min)
             /\ LessEq32(_stats.read_duration_max, _stats.read_duration_max')]_vars

\* C18: once the worker has assigned a result other than Incomplete, no field
\* of _stats changes again, and on_test reads stats() only after it has seen
\* such a result.
C18_StatsFinal ==
    /\ [][Done => _stats' = _stats]_vars
    /\ []((owner = "on_test" /\ cpc \in {"report", "dtor", "wait", "gone", "fault"}) =>
             (Done /\ _result # "Incomplete"))

C18_Witness ==
    /\ owner = "on_test" /\ cpc = "dtor" /\ wpc = "return"
    /\ seen = "OK" /\ _stats.read_count = NumChunks

\* read() returned OK: it left through the end of its loop (lines 214-219).
ReadReturnedOK == hist.rTimed

\* C19: f_unlink runs exactly when read() returned OK: the file is removed
\* when the result is OK or FailReadIncomplete (and FailAbort after the read
\* phase), and left in place when the result is FailWriteIncomplete,
\* FailFileOpenRead, FailCompare, a heap or open-for-write failure, or
\* FailAbort after the write phase.
C19_UnlinkCondition ==
    /\ RunReturned => (hist.unlinked <=> ReadReturnedOK)
    /\ ~RunReturned => ~hist.unlinked
    /\ hist.unlinked => ~file.exists
    /\ Done =>
          /\ (_result \in {"OK", "FailReadIncomplete"}) => hist.unlinked
          /\ (_result \in {"FailHeap", "FailFileOpenWrite", "FailWriteIncomplete",
                           "FailFileOpenRead", "FailCompare"}) => ~hist.unlinked
          /\ (_result \in {"FailWriteIncomplete", "FailFileOpenRead", "FailCompare"}) =>
                file.exists
          /\ (_result = "FailAbort") =>
                /\ hist.unlinked <=> hist.readInvoked
                /\ ~hist.readInvoked => file.exists

C19_Witness ==
    /\ wpc = "exited" /\ _result = "FailReadIncomplete"
    /\ hist.unlinked /\ ~file.exists /\ hist.writeOk = NumChunks

\* C20 as stated: whenever result() is OK, every divisor on_test uses when it
\* formats the statistics is nonzero, for every sequence of counter readings.
C20_NoZeroDivisor ==
    (_result = "OK") => Zero32 \notin ReportDivisors(_stats)

====
